---- MODULE Spec2Model ----
(***************************************************************************)
(* Model of the watchlist-kata/user account service:                       *)
(*   UserService        (src/unnamed/part_002)                             *)
(*   PostgresRepository (src/internal/repository/repository.go)            *)
(*   GormUser           (src/internal/repository/gorm_models.go)           *)
(*                                                                         *)
(* Each RPC runs in its own goroutine (a caller).  A service operation is  *)
(* cut into one step per storage round trip; the code between two round    *)
(* trips is local to the caller and is part of the step that follows it.   *)
(* Strings that the code only compares (username, email) are TLA+ strings. *)
(* Strings whose bytes matter (password, salt) are sequences of bytes.     *)
(* A bcrypt hash is represented by the 72 bytes of key material that       *)
(* bcrypt digests (the digest is taken to be injective in them).           *)
(* created_at / updated_at are not modelled.                               *)
(***************************************************************************)
EXTENDS Integers, Sequences, FiniteSets, TLC

(***************************************************************************)
(* Bounds of the model.                                                    *)
(***************************************************************************)
\* ids the storage sequence may hand out
MaxId == 2

Callers == {"a", "b"}

(***************************************************************************)
(* Program constants.                                                      *)
(***************************************************************************)
SaltBytes == 16
\* characters of the base64 encoding of SaltBytes bytes
SaltLen == 24
MaxUsernameLen == 50
MaxEmailLen == 254
MaxPwdhashLen == 1000
MaxSaltLen == 255
\* bcrypt digests at most 72 bytes of key; GenerateFromPassword rejects more
BcryptMaxLen == 72
\* length of the string bcrypt.GenerateFromPassword returns
BcryptHashLen == 60

(***************************************************************************)
(* Error values.                                                           *)
(***************************************************************************)
Nil == "nil"
ErrUserNotFound == "user not found"
CtxCanceled == "context canceled"
ErrDriver == "driver error"
ErrUnique == "unique violation"
ErrInvalid == "invalid field"
ErrHash == "failed to hash password"
ErrSalt == "failed to generate salt"

\* gRPC status codes the service produces
OK == "OK"
Canceled == "Canceled"
AlreadyExists == "AlreadyExists"
NotFound == "NotFound"
Internal == "Internal"

(***************************************************************************)
(* Bytes, base64 and bcrypt.                                               *)
(***************************************************************************)
Rep(n, b) == [i \in 1..n |-> b]

\* one character of the standard base64 alphabet, as its ASCII code
B64Char(i) ==
    IF i < 26 THEN 65 + i
    ELSE IF i < 52 THEN 97 + (i - 26)
    ELSE IF i < 62 THEN 48 + (i - 52)
    ELSE IF i = 62 THEN 43 ELSE 47

RECURSIVE EncodeToString(_)
EncodeToString(b) ==
    IF Len(b) = 0 THEN <<>>
    ELSE IF Len(b) = 1 THEN
        <<B64Char(b[1] \div 4), B64Char((b[1] % 4) * 16), 61, 61>>
    ELSE IF Len(b) = 2 THEN
        <<B64Char(b[1] \div 4), B64Char((b[1] % 4) * 16 + (b[2] \div 16)),
          B64Char((b[2] % 16) * 4), 61>>
    ELSE
        <<B64Char(b[1] \div 4), B64Char((b[1] % 4) * 16 + (b[2] \div 16)),
          B64Char((b[2] % 16) * 4 + (b[3] \div 64)), B64Char(b[3] % 64)>>
        \o EncodeToString(SubSeq(b, 4, Len(b)))

\* what rand.Read may leave in the 16-byte buffer (two samples), or an error
RandReads == {Rep(SaltBytes, 0), [i \in 1..SaltBytes |-> (i * 37) % 256]}
RandOutcomes == [err : {Nil}, bytes : RandReads] \cup {[err |-> ErrSalt, bytes |-> <<>>]}

GenerateSalt(rnd) ==
    IF rnd.err # Nil THEN [salt |-> <<>>, err |-> ErrSalt]
    ELSE [salt |-> EncodeToString(rnd.bytes), err |-> Nil]

\* The key bcrypt feeds to Blowfish: the secret followed by a NUL byte,
\* repeated cyclically, of which the first 72 bytes are used.
BcryptKey(secret) ==
    LET ckey == secret \o <<0>>
    IN [i \in 1..BcryptMaxLen |-> ckey[((i - 1) % Len(ckey)) + 1]]

GenerateFromPassword(secret) ==
    IF Len(secret) > BcryptMaxLen THEN [hash |-> <<>>, err |-> ErrHash]
    ELSE [hash |-> BcryptKey(secret), err |-> Nil]

\* faulty variant: every password is accepted
CompareHashAndPassword_Always(hash, secret) == Nil

CompareHashAndPassword(hash, secret) ==
    IF hash = BcryptKey(secret) THEN Nil ELSE "mismatch"

\* faulty variant: the salt is left out of what is hashed
HashPassword_NoSalt(password, salt) ==
    IF Len(password) > BcryptMaxLen THEN [hash |-> <<>>, err |-> ErrHash]
    ELSE [hash |-> BcryptKey(password), err |-> Nil]

HashPassword(password, salt) ==
    LET hashedPassword == password \o salt
    IN GenerateFromPassword(hashedPassword)

\* len() of a stored password hash string
PwdhashLen(h) == IF h = <<>> THEN 0 ELSE BcryptHashLen

(***************************************************************************)
(* Rows and requests.                                                      *)
(***************************************************************************)
\* the zero value of GormUser / user.User
NoUser == [ID |-> 0, Username |-> "", Email |-> "", Pwdhash |-> <<>>, Salt |-> <<>>]

GormUser(id, username, email, pwdhash, salt) ==
    [ID |-> id, Username |-> username, Email |-> email, Pwdhash |-> pwdhash, Salt |-> salt]

\* faulty variant: the id is not copied
convertToProtoUser_NoId(gormUser) ==
    [ID |-> 0, Username |-> gormUser.Username, Email |-> gormUser.Email,
     Pwdhash |-> gormUser.Pwdhash, Salt |-> gormUser.Salt]

convertToProtoUser(gormUser) ==
    [ID |-> gormUser.ID, Username |-> gormUser.Username, Email |-> gormUser.Email,
     Pwdhash |-> gormUser.Pwdhash, Salt |-> gormUser.Salt]

validateUser(user) ==
    IF user.Username = "" \/ Len(user.Username) > MaxUsernameLen THEN ErrInvalid
    ELSE IF user.Email = "" \/ Len(user.Email) > MaxEmailLen THEN ErrInvalid
    ELSE IF user.Pwdhash = <<>> \/ PwdhashLen(user.Pwdhash) > MaxPwdhashLen THEN ErrInvalid
    ELSE IF user.Salt = <<>> \/ Len(user.Salt) > MaxSaltLen THEN ErrInvalid
    ELSE Nil

(***************************************************************************)
(* Request values.                                                         *)
(***************************************************************************)
Ids == 1..MaxId
Usernames == {"alice", "bob"}
Emails == {"a@x.com", "b@x.com"}
\* a username of MaxUsernameLen + 1 characters
LongUsername == "abcdefghijabcdefghijabcdefghijabcdefghijabcdefghijk"
\* request values that validateUser refuses
BadUsernames == {"", LongUsername}
\* an email of MaxEmailLen + 1 characters
LongEmail == "aaaaaaaaaaaaaaaaaaaaaaaaaaaaaaaaaaaaaaaaaaaaaaaaaaaaaaaaaaaaaaaaaaaaaaaaaaaaaaaaaaaaaaaaaaaaaaaaaaaaaaaaaaaaaaaaaaaaaaaaaaaaaaaaaaaaaaaaaaaaaaaaaaaaaaaaaaaaaaaaaaaaaaaaaaaaaaaaaaaaaaaaaaaaaaaaaaaaaaaaaaaaaaaaaaaaaaaaaaaaaaaaaaaaaaaaaaaaaaaaaaaaaaaaa@x.com"
BadEmails == {"", LongEmail}

Pw1 == <<112, 119, 49>>
Pw3 == <<112, 119, 51>>
\* 48 bytes: with the 24-character salt exactly the 72 bytes bcrypt accepts
Pw48 == Rep(BcryptMaxLen - SaltLen, 98)
\* 49 bytes: with the salt one byte more than bcrypt accepts
PwLong == Rep(BcryptMaxLen - SaltLen + 1, 97)
Passwords == {Pw1, Pw3, Pw48, PwLong}

Salts == {GenerateSalt(r).salt : r \in {o \in RandOutcomes : o.err = Nil}}

\* passwords tried with CheckPass: the stored ones, each with one more
\* character, P ++ salt ++ NUL ++ P and the 48-byte one followed by the salt
CheckPasswords ==
    Passwords \cup {P \o <<120>> : P \in Passwords}
              \cup {Pw1 \o s \o <<0>> \o Pw1 : s \in Salts}
              \cup {Pw48 \o s \o <<120>> : s \in Salts}

NoCall == [op |-> "none", id |-> 0, username |-> "", email |-> "", password |-> <<>>]

CreateUserRequest(username, email, password) ==
    [op |-> "Create", id |-> 0, username |-> username, email |-> email, password |-> password]
GetUserRequest(id) ==
    [op |-> "GetByID", id |-> id, username |-> "", email |-> "", password |-> <<>>]
UpdateUserRequest(id, username, email, password) ==
    [op |-> "Update", id |-> id, username |-> username, email |-> email, password |-> password]
DeleteUserRequest(id) ==
    [op |-> "Delete", id |-> id, username |-> "", email |-> "", password |-> <<>>]
CheckPasswordRequest(id, password) ==
    [op |-> "CheckPass", id |-> id, username |-> "", email |-> "", password |-> password]

\* The requests of a single caller: varied values.
SeqRequests(ids) ==
    {CreateUserRequest(u, e, pw) :
        u \in Usernames \cup {""}, e \in Emails, pw \in {Pw1, Pw48, PwLong}}
    \cup {GetUserRequest(i) : i \in ids}
    \cup {UpdateUserRequest(i, u, e, pw) :
            i \in ids, u \in {"", "bob"}, e \in {"", "b@x.com"},
            pw \in {<<>>, Pw1, Pw3}}
    \cup {DeleteUserRequest(i) : i \in ids}
    \cup {CheckPasswordRequest(i, pw) : i \in ids, pw \in CheckPasswords}

\* The requests of concurrent callers: the few that collide.
ConcRequests(ids) ==
    {CreateUserRequest("alice", "a@x.com", Pw1),
     CreateUserRequest("bob", "b@x.com", Pw1),
     CreateUserRequest("bob", "a@x.com", Pw1)}
    \cup {UpdateUserRequest(i, "bob", "", <<>>) : i \in ids}
    \cup {UpdateUserRequest(i, "", "", Pw3) : i \in ids}
    \cup {DeleteUserRequest(i) : i \in ids}

\* A creator and a reader.
TxRequests(p, ids) ==
    IF p = "a"
    THEN {CreateUserRequest(u, "a@x.com", Pw1) : u \in Usernames}
    ELSE {GetUserRequest(i) : i \in ids}

\* One caller trying the limits of the fields.
FieldRequests(ids) ==
    {CreateUserRequest(u, e, Pw1) :
        u \in {"alice"} \cup BadUsernames, e \in {"a@x.com"} \cup BadEmails}
    \cup {UpdateUserRequest(i, u, e, pw) :
            i \in ids, u \in {"", "bob", LongUsername},
            e \in {"", "b@x.com", LongEmail}, pw \in {<<>>, Pw3}}

\* A reader and a writer of the same accounts.
ReadRequests(p, ids) ==
    IF p = "a"
    THEN {GetUserRequest(i) : i \in ids}
    ELSE {CreateUserRequest("alice", "a@x.com", Pw1)}
         \cup {UpdateUserRequest(i, "bob", "", <<>>) : i \in ids}
         \cup {DeleteUserRequest(i) : i \in ids}

\* Concurrent callers changing the password and the name of an account.
PasswordRequests(ids) ==
    {CreateUserRequest("alice", "a@x.com", Pw1)}
    \cup {UpdateUserRequest(i, "", "", Pw3) : i \in ids}
    \cup {UpdateUserRequest(i, "bob", "", <<>>) : i \in ids}

\* Concurrent callers of every operation, with storage calls that may fail.
StepRequests(p, ids) ==
    IF p = "a"
    THEN {CreateUserRequest("alice", "a@x.com", Pw1)}
         \cup {UpdateUserRequest(i, "bob", "", <<>>) : i \in ids}
         \cup {DeleteUserRequest(i) : i \in ids}
    ELSE {CreateUserRequest("bob", "a@x.com", Pw1)}
         \cup {GetUserRequest(i) : i \in ids}
         \cup {CheckPasswordRequest(i, Pw1) : i \in ids}

(***************************************************************************)
(* State.                                                                  *)
(***************************************************************************)
VARIABLES
    db,        \* the committed rows of table "user"
    nextId,    \* the next value of the id sequence
    tx,        \* per caller: the row its open transaction has inserted
    pc,        \* per caller: where its operation stands
    call,      \* per caller: the request being served
    ctxDone,   \* per caller: whether the request's context is cancelled
    user,      \* per caller: newUser / userToUpdate of the service
    existing,  \* per caller: existingUser of the repository
    res,       \* per caller: the response and status of the finished call
    g,         \* per caller: history of the call (observation only)
    fate,      \* per id: what became of the row inserted with it (observation only)
    prev,      \* the reader's last finished GetByID (observation only)
    load       \* the callers at work: "sequential", "concurrent", "transaction",
               \* "fields", "reads", "passwords" or "steps"

vars == <<db, nextId, tx, pc, call, ctxDone, user, existing, res, g, fate, prev, load>>

NoRes == [status |-> "none", user |-> NoUser, valid |-> FALSE, success |-> FALSE]

NoHist == [entryCancelled |-> FALSE, repoCancel |-> FALSE, noRow |-> FALSE,
           fault |-> FALSE, reads |-> 0, writes |-> 0, txBegun |-> FALSE,
           txOpen |-> FALSE, rowId |-> 0, seen |-> 0, lastErr |-> Nil,
           peersReady |-> {}, dbAtCall |-> {}]

\* no GetByID has finished yet
NoPrev == [n |-> 0, id |-> 0, res |-> NoRes, changed |-> FALSE]

Active == IF load \in {"sequential", "fields"} THEN {"a"} ELSE Callers

\* requests name an id the sequence has handed out, or the next one
Requests(p) ==
    LET ids == {i \in Ids : i <= nextId}
    IN CASE load = "sequential" -> SeqRequests(ids)
         [] load = "concurrent" -> ConcRequests(ids)
         [] load = "transaction" -> TxRequests(p, ids)
         [] load = "fields" -> FieldRequests(ids)
         [] load = "reads" -> ReadRequests(p, ids)
         [] load = "passwords" -> PasswordRequests(ids)
         [] load = "steps" -> StepRequests(p, ids)

\* whether storage calls may fail and contexts may be cancelled
Faults == IF load \in {"concurrent", "fields", "passwords"} THEN {FALSE} ELSE BOOLEAN
Cancels ==
    IF load \in {"concurrent", "fields", "passwords", "steps"} THEN {FALSE} ELSE BOOLEAN
Rands ==
    IF load = "sequential" THEN RandOutcomes
    ELSE IF load = "passwords" THEN {o \in RandOutcomes : o.err = Nil}
    ELSE {[err |-> Nil, bytes |-> Rep(SaltBytes, 0)]}

InitState ==
    /\ db = {}
    /\ nextId = 1
    /\ tx = [p \in Callers |-> NoUser]
    /\ pc = [p \in Callers |-> "idle"]
    /\ call = [p \in Callers |-> NoCall]
    /\ ctxDone = [p \in Callers |-> FALSE]
    /\ user = [p \in Callers |-> NoUser]
    /\ existing = [p \in Callers |-> NoUser]
    /\ res = [p \in Callers |-> NoRes]
    /\ g = [p \in Callers |-> NoHist]
    /\ fate = [i \in Ids |-> "unused"]
    /\ prev = NoPrev

Init == InitState /\ load = "concurrent"

InitSeq == InitState /\ load = "sequential"

InitTx == InitState /\ load = "transaction"

InitFields == InitState /\ load = "fields"

InitReads == InitState /\ load = "reads"

InitPasswords == InitState /\ load = "passwords"

InitSteps == InitState /\ load = "steps"

(***************************************************************************)
(* Storage: table "user" with a primary key and unique username, email.    *)
(***************************************************************************)
Conflicts(r1, r2) == r1.Username = r2.Username \/ r1.Email = r2.Email

\* faulty variant: the unique index on email is missing
UniqueViolation_UsernameOnly(table, row) ==
    \E r \in table : r.ID # row.ID /\ r.Username = row.Username

\* unique index on username and on email (GormUser tags)
UniqueViolation(table, row) ==
    \E r \in table : r.ID # row.ID /\ Conflicts(r, row)

\* faulty variant: the statement also waits for a committed row with its
\* key, which never goes away
LockWait_Stored(p, row) ==
    \/ \E q \in Callers \ {p} : tx[q] # NoUser /\ tx[q].ID # row.ID /\ Conflicts(tx[q], row)
    \/ \E r \in db : r.ID # row.ID /\ Conflicts(r, row)

\* a statement that writes a key another open transaction has inserted
\* waits until that transaction ends
LockWait(p, row) ==
    \E q \in Callers \ {p} : tx[q] # NoUser /\ tx[q].ID # row.ID /\ Conflicts(tx[q], row)

\* faulty variant: rows of open transactions are visible (dirty reads)
Visible_Dirty == db \cup {tx[q] : q \in {c \in Callers : tx[c] # NoUser}}

\* rows a statement issued outside a transaction can see
Visible == db

First(matches) == CHOOSE r \in matches : \A s \in matches : r.ID <= s.ID

\* faulty variant: a missing row is not an error and yields the zero user
Lookup_NoRowIsZero(cancelled, fails, matches) ==
    IF cancelled THEN [err |-> CtxCanceled, user |-> NoUser]
    ELSE IF fails THEN [err |-> ErrDriver, user |-> NoUser]
    ELSE IF matches = {} THEN [err |-> Nil, user |-> NoUser]
    ELSE [err |-> Nil, user |-> convertToProtoUser(First(matches))]

\* a point lookup of the repository: cancellation check, query, error mapping
Lookup(cancelled, fails, matches) ==
    IF cancelled THEN [err |-> CtxCanceled, user |-> NoUser]
    ELSE IF fails THEN [err |-> ErrDriver, user |-> NoUser]
    ELSE IF matches = {} THEN [err |-> ErrUserNotFound, user |-> NoUser]
    ELSE [err |-> Nil, user |-> convertToProtoUser(First(matches))]

GetUserByID(cancelled, fails, id) ==
    Lookup(cancelled, fails, {r \in Visible : r.ID = id})
GetUserByUsername(cancelled, fails, username) ==
    Lookup(cancelled, fails, {r \in Visible : r.Username = username})
\* faulty variant: the email lookup queries the username column
GetUserByEmail_ByUsername(cancelled, fails, email) ==
    Lookup(cancelled, fails, {r \in Visible : r.Username = email})

GetUserByEmail(cancelled, fails, email) ==
    Lookup(cancelled, fails, {r \in Visible : r.Email = email})

\* faulty variant: Salt is not copied into the row to write
Assign_NoSalt(row, gormUser) ==
    [ID |-> IF gormUser.ID # 0 THEN gormUser.ID ELSE row.ID,
     Username |-> IF gormUser.Username # "" THEN gormUser.Username ELSE row.Username,
     Email |-> IF gormUser.Email # "" THEN gormUser.Email ELSE row.Email,
     Pwdhash |-> IF gormUser.Pwdhash # <<>> THEN gormUser.Pwdhash ELSE row.Pwdhash,
     Salt |-> row.Salt]

\* Updates(gormUser): only the non-zero fields are assigned
Assign(row, gormUser) ==
    [ID |-> IF gormUser.ID # 0 THEN gormUser.ID ELSE row.ID,
     Username |-> IF gormUser.Username # "" THEN gormUser.Username ELSE row.Username,
     Email |-> IF gormUser.Email # "" THEN gormUser.Email ELSE row.Email,
     Pwdhash |-> IF gormUser.Pwdhash # <<>> THEN gormUser.Pwdhash ELSE row.Pwdhash,
     Salt |-> IF gormUser.Salt # <<>> THEN gormUser.Salt ELSE row.Salt]

\* faulty variant: the entry check never reports cancellation
checkContextCancelled_Never(done) == Nil

checkContextCancelled(done) == IF done THEN CtxCanceled ELSE Nil

(***************************************************************************)
(* Service: mapping of repository errors to status codes.                  *)
(***************************************************************************)
\* faulty variant: a missing account is reported as Internal
StatusOfLookup_Conflated(err) == IF err = Nil THEN OK ELSE Internal

\* GetByID, CheckPass, Delete and the first lookup of Update
StatusOfLookup(err) ==
    IF err = Nil THEN OK
    ELSE IF err = ErrUserNotFound THEN NotFound
    ELSE Internal

\* faulty variant: every failed lookup counts as "no such account"
StatusOfUniqueness_Lenient(err) == IF err = Nil THEN AlreadyExists ELSE OK

\* the uniqueness lookups of Create; OK means "go on"
StatusOfUniqueness(err) ==
    IF err = Nil THEN AlreadyExists
    ELSE IF err # ErrUserNotFound THEN Internal
    ELSE OK

StatusOfCreateUser(err) == IF err # Nil THEN Internal ELSE OK

\* faulty variant: the error of UpdateUser is returned as it is
StatusOfUpdateUser_Raw(err) == IF err # Nil THEN err ELSE OK

StatusOfUpdateUser(err) == IF err # Nil THEN Internal ELSE OK

(***************************************************************************)
(* Bookkeeping shared by the steps.                                        *)
(***************************************************************************)
Goto(p, label, h) ==
    /\ pc' = [pc EXCEPT ![p] = label]
    /\ g' = [g EXCEPT ![p] = h]
    /\ UNCHANGED res

Reply(p, status, u, valid, success, h) ==
    /\ pc' = [pc EXCEPT ![p] = "done"]
    /\ g' = [g EXCEPT ![p] = h]
    /\ res' = [res EXCEPT ![p] =
                 [status |-> status, user |-> u, valid |-> valid, success |-> success]]

Fail(p, status, h) == Reply(p, status, NoUser, FALSE, FALSE, h)

\* history after a repository call that returned err
After(h, err) ==
    [h EXCEPT !.repoCancel = @ \/ err = CtxCanceled,
              !.fault = @ \/ err = ErrDriver,
              !.lastErr = err]

\* history after a repository lookup
AfterLookup(h, r, byId) ==
    [After(h, r.err) EXCEPT
        !.reads = IF r.err = CtxCanceled THEN @ ELSE @ + 1,
        !.seen = IF r.err = Nil THEN r.user.ID ELSE @,
        !.noRow = @ \/ (byId /\ r.err = ErrUserNotFound)]

\* Creates that will still draw an id from the sequence
Drawing == {q \in Callers : pc[q] \in {"c_username", "c_email", "c_begin", "c_check", "c_insert"}}

(***************************************************************************)
(* The callers.                                                            *)
(***************************************************************************)
FirstLabel(op) ==
    CASE op = "Create" -> "c_username"
      [] op = "GetByID" -> "g_get"
      [] op = "Update" -> "u_get"
      [] op = "Delete" -> "d_first"
      [] op = "CheckPass" -> "k_get"

\* A request arrives; every operation starts with checkContextCancelled.
Call(p) ==
    /\ pc[p] = "idle"
    /\ \E req \in Requests(p), cancelled \in Cancels :
        /\ req.op = "Create" => nextId + Cardinality(Drawing) <= MaxId
        /\ call' = [call EXCEPT ![p] = req]
        /\ ctxDone' = [ctxDone EXCEPT ![p] = cancelled]
        /\ LET h == [NoHist EXCEPT !.entryCancelled = cancelled,
                                   !.dbAtCall = IF load = "sequential" THEN db ELSE {}]
           IN /\ pc' = [pc EXCEPT ![p] =
                          IF checkContextCancelled(cancelled) # Nil
                          THEN "done" ELSE FirstLabel(req.op)]
              /\ g' = [g EXCEPT ![p] = h]
              /\ res' = [res EXCEPT ![p] =
                          IF checkContextCancelled(cancelled) # Nil
                          THEN [NoRes EXCEPT !.status = Canceled] ELSE NoRes]
    /\ UNCHANGED <<db, nextId, tx, user, existing, fate, load>>

\* The client cancels the request while it is being served.
Cancel(p) ==
    /\ TRUE \in Cancels
    /\ pc[p] \notin {"idle", "done"}
    /\ ~ctxDone[p]
    /\ ctxDone' = [ctxDone EXCEPT ![p] = TRUE]
    /\ UNCHANGED <<db, nextId, tx, pc, call, user, existing, res, g, fate, load>>

\* The response is delivered; the goroutine's locals are gone.
Return(p) ==
    /\ pc[p] = "done"
    /\ pc' = [pc EXCEPT ![p] = "idle"]
    /\ call' = [call EXCEPT ![p] = NoCall]
    /\ ctxDone' = [ctxDone EXCEPT ![p] = FALSE]
    /\ user' = [user EXCEPT ![p] = NoUser]
    /\ existing' = [existing EXCEPT ![p] = NoUser]
    /\ res' = [res EXCEPT ![p] = NoRes]
    /\ g' = [g EXCEPT ![p] = NoHist]
    /\ UNCHANGED <<db, nextId, tx, fate, load>>

(***************************************************************************)
(* GetByID and CheckPass.                                                  *)
(***************************************************************************)
GetByID(p) ==
    /\ pc[p] = "g_get"
    /\ \E fails \in Faults :
        LET r == GetUserByID(ctxDone[p], fails, call[p].id)
            h == AfterLookup(g[p], r, TRUE)
        IN Reply(p, StatusOfLookup(r.err), r.user, FALSE, FALSE, h)
    /\ UNCHANGED <<db, nextId, tx, call, ctxDone, user, existing, fate, load>>

CheckPass(p) ==
    /\ pc[p] = "k_get"
    /\ \E fails \in Faults :
        LET r == GetUserByID(ctxDone[p], fails, call[p].id)
            h == AfterLookup(g[p], r, TRUE)
        IN IF r.err # Nil
           THEN /\ Fail(p, StatusOfLookup(r.err), h)
                /\ UNCHANGED user
           ELSE /\ Reply(p, OK, NoUser,
                         CompareHashAndPassword(r.user.Pwdhash,
                                                call[p].password \o r.user.Salt) = Nil,
                         FALSE, h)
                /\ user' = [user EXCEPT ![p] = r.user]
    /\ UNCHANGED <<db, nextId, tx, call, ctxDone, existing, fate, load>>

(***************************************************************************)
(* Create.                                                                 *)
(***************************************************************************)
CreateUsername(p) ==
    /\ pc[p] = "c_username"
    /\ \E fails \in Faults :
        LET r == GetUserByUsername(ctxDone[p], fails, call[p].username)
            h == AfterLookup(g[p], r, FALSE)
        IN IF StatusOfUniqueness(r.err) # OK
           THEN Fail(p, StatusOfUniqueness(r.err), h)
           ELSE Goto(p, "c_email", h)
    /\ UNCHANGED <<db, nextId, tx, call, ctxDone, user, existing, fate, load>>

CreateEmail(p) ==
    /\ pc[p] = "c_email"
    /\ \E fails \in Faults :
        LET r == GetUserByEmail(ctxDone[p], fails, call[p].email)
            h == AfterLookup(g[p], r, FALSE)
        IN IF StatusOfUniqueness(r.err) # OK
           THEN Fail(p, StatusOfUniqueness(r.err), h)
           ELSE Goto(p, "c_begin", h)
    /\ UNCHANGED <<db, nextId, tx, call, ctxDone, user, existing, fate, load>>

\* faulty variant: no Rollback when the insert fails
TxEnds_NotAfterInsertError(path) ==
    path \in {"cancelled before insert", "cancelled after insert",
              "commit failed", "committed"}

\* The paths of repository CreateUser on which the transaction is ended:
\* tx.Rollback() on cancellation before the insert, on a failed insert and on
\* cancellation after the insert; tx.Commit(), which ends the transaction
\* whether it succeeds or fails.
TxEnds(path) ==
    path \in {"cancelled before insert", "insert failed", "cancelled after insert",
              "commit failed", "committed"}

\* faulty variant: the transaction is begun without validating the account
CreateUserHead_NoValidation(cancelled, newUser, fails) ==
    IF cancelled THEN CtxCanceled
    ELSE IF fails THEN ErrDriver
    ELSE Nil

\* repository CreateUser up to Begin: cancellation check, validateUser, Begin
CreateUserHead(cancelled, newUser, fails) ==
    IF cancelled THEN CtxCanceled
    ELSE IF validateUser(newUser) # Nil THEN validateUser(newUser)
    ELSE IF fails THEN ErrDriver
    ELSE Nil

\* salt, hash, newUser, then CreateUser up to Begin
CreateBegin(p) ==
    /\ pc[p] = "c_begin"
    /\ \E rnd \in Rands, fails \in Faults :
       \E s \in {GenerateSalt(rnd)} :
       \E hp \in {HashPassword(call[p].password, s.salt)} :
        LET newUser == GormUser(0, call[p].username, call[p].email, hp.hash, s.salt)
            err == CreateUserHead(ctxDone[p], newUser, fails)
        IN IF s.err # Nil
           THEN Fail(p, Internal, After(g[p], s.err)) /\ UNCHANGED user
           ELSE IF hp.err # Nil
           THEN Fail(p, Internal, After(g[p], hp.err)) /\ UNCHANGED user
           ELSE IF err # Nil
           THEN Fail(p, StatusOfCreateUser(err), After(g[p], err)) /\ UNCHANGED user
           ELSE /\ Goto(p, "c_check",
                         [After(g[p], Nil) EXCEPT !.txBegun = TRUE, !.txOpen = TRUE])
                /\ user' = [user EXCEPT ![p] = newUser]
    /\ UNCHANGED <<db, nextId, tx, call, ctxDone, existing, fate, load>>

\* the cancellation check before the insert; on cancellation tx.Rollback()
CreateCheck(p) ==
    /\ pc[p] = "c_check"
    /\ IF ctxDone[p]
       THEN Fail(p, StatusOfCreateUser(CtxCanceled),
                 [After(g[p], CtxCanceled) EXCEPT
                     !.txOpen = ~TxEnds("cancelled before insert")])
       ELSE Goto(p, "c_insert", g[p])
    /\ UNCHANGED <<db, nextId, tx, call, ctxDone, user, existing, fate, load>>

\* tx.Create(gormUser); on an error tx.Rollback()
CreateInsert(p) ==
    /\ pc[p] = "c_insert"
    /\ LET row == [user[p] EXCEPT !.ID = nextId]
       IN /\ ~LockWait(p, row)
          /\ \E fails \in Faults :
              IF fails
              THEN /\ Fail(p, StatusOfCreateUser(ErrDriver),
                           [After(g[p], ErrDriver) EXCEPT
                               !.writes = @ + 1, !.txOpen = ~TxEnds("insert failed")])
                   /\ UNCHANGED <<tx, nextId, fate>>
              ELSE IF UniqueViolation(db, row)
              THEN /\ Fail(p, StatusOfCreateUser(ErrUnique),
                           [After(g[p], ErrUnique) EXCEPT
                               !.writes = @ + 1, !.txOpen = ~TxEnds("insert failed")])
                   /\ nextId' = nextId + 1
                   /\ fate' = [fate EXCEPT ![nextId] = "aborted"]
                   /\ UNCHANGED tx
              ELSE /\ Goto(p, "c_commit",
                           [After(g[p], Nil) EXCEPT
                               !.writes = @ + 1, !.rowId = nextId,
                               !.peersReady = {q \in Callers \ {p} :
                                   pc[q] \in {"c_begin", "c_check", "c_insert"}}])
                   /\ tx' = [tx EXCEPT ![p] = row]
                   /\ nextId' = nextId + 1
                   /\ fate' = [fate EXCEPT ![nextId] = "pending"]
    /\ UNCHANGED <<db, call, ctxDone, user, existing, load>>

\* faulty variant: the transaction is committed before the cancellation check
CreateUserTail_CommitFirst(cancelled, fails) ==
    IF fails THEN [commit |-> FALSE, err |-> ErrDriver]
    ELSE IF cancelled THEN [commit |-> TRUE, err |-> CtxCanceled]
    ELSE [commit |-> TRUE, err |-> Nil]

\* repository CreateUser after the insert: cancellation check (Rollback), Commit
CreateUserTail(cancelled, fails) ==
    IF cancelled THEN [commit |-> FALSE, err |-> CtxCanceled]
    ELSE IF fails THEN [commit |-> FALSE, err |-> ErrDriver]
    ELSE [commit |-> TRUE, err |-> Nil]

\* the path on which CreateUser leaves after the insert
TailPath(err) ==
    IF err = CtxCanceled THEN "cancelled after insert"
    ELSE IF err # Nil THEN "commit failed"
    ELSE "committed"

CreateCommit(p) ==
    /\ pc[p] = "c_commit"
    /\ \E fails \in Faults :
        LET t == CreateUserTail(ctxDone[p], fails)
            ended == TxEnds(TailPath(t.err))
        IN /\ db' = IF t.commit THEN db \cup {tx[p]} ELSE db
           /\ fate' = [fate EXCEPT ![tx[p].ID] = IF t.commit THEN "committed" ELSE "aborted"]
           /\ tx' = [tx EXCEPT ![p] = NoUser]
           /\ IF t.err # Nil
              THEN Fail(p, StatusOfCreateUser(t.err),
                        [After(g[p], t.err) EXCEPT !.txOpen = ~ended])
              ELSE Reply(p, OK, convertToProtoUser(tx[p]), FALSE, FALSE,
                         [After(g[p], Nil) EXCEPT !.txOpen = ~ended])
    /\ UNCHANGED <<nextId, call, ctxDone, user, existing, load>>

(***************************************************************************)
(* Update.                                                                 *)
(***************************************************************************)
\* faulty variant: the salt of the account read is not carried over
UserToUpdate_NoSalt(req, existingUser) ==
    [ID |-> req.id,
     Username |-> IF req.username # "" THEN req.username ELSE existingUser.Username,
     Email |-> IF req.email # "" THEN req.email ELSE existingUser.Email,
     Pwdhash |-> existingUser.Pwdhash,
     Salt |-> <<>>]

\* userToUpdate before the password is looked at
UserToUpdate(req, existingUser) ==
    [ID |-> req.id,
     Username |-> IF req.username # "" THEN req.username ELSE existingUser.Username,
     Email |-> IF req.email # "" THEN req.email ELSE existingUser.Email,
     Pwdhash |-> existingUser.Pwdhash,
     Salt |-> existingUser.Salt]

\* service Update up to the call of repository UpdateUser
UpdateGet(p) ==
    /\ pc[p] = "u_get"
    /\ \E fails \in Faults, rnd \in Rands :
       \E s \in {GenerateSalt(rnd)} :
       \E hp \in {HashPassword(call[p].password, s.salt)} :
        LET r == GetUserByID(ctxDone[p], fails, call[p].id)
            h == AfterLookup(g[p], r, TRUE)
            userToUpdate == UserToUpdate(call[p], r.user)
        IN IF r.err # Nil
           THEN Fail(p, StatusOfLookup(r.err), h) /\ UNCHANGED user
           ELSE IF call[p].password = <<>>
           THEN /\ Goto(p, "u_first", h)
                /\ user' = [user EXCEPT ![p] = userToUpdate]
           ELSE IF s.err # Nil
           THEN Fail(p, Internal, After(h, s.err)) /\ UNCHANGED user
           ELSE IF hp.err # Nil
           THEN Fail(p, Internal, After(h, hp.err)) /\ UNCHANGED user
           ELSE /\ Goto(p, "u_first", h)
                /\ user' = [user EXCEPT ![p] =
                              [userToUpdate EXCEPT !.Pwdhash = hp.hash, !.Salt = s.salt]]
    /\ UNCHANGED <<db, nextId, tx, call, ctxDone, existing, fate, load>>

\* repository UpdateUser: cancellation check and existence check
UpdateFirst(p) ==
    /\ pc[p] = "u_first"
    /\ \E fails \in Faults :
        LET r == GetUserByID(ctxDone[p], fails, user[p].ID)
            h == AfterLookup(g[p], r, TRUE)
        IN IF r.err # Nil
           THEN Fail(p, StatusOfUpdateUser(r.err), h) /\ UNCHANGED existing
           ELSE /\ Goto(p, "u_updates", h)
                /\ existing' = [existing EXCEPT ![p] = r.user]
    /\ UNCHANGED <<db, nextId, tx, call, ctxDone, user, fate, load>>

\* faulty variant: Save, which inserts the row when none was updated
Updates_Save(table, existingUser, gormUser) ==
    {r \in table : r.ID # existingUser.ID} \cup {Assign(existingUser, gormUser)}

\* the table after UPDATE ... WHERE id = existingUser.ID
Updates(table, existingUser, gormUser) ==
    {r \in table : r.ID # existingUser.ID}
        \cup {Assign(r, gormUser) : r \in {t \in table : t.ID = existingUser.ID}}

\* r.db.Model(&existingUser).Updates(gormUser)
UpdateExec(p) ==
    /\ pc[p] = "u_updates"
    /\ LET target == {r \in db : r.ID = existing[p].ID}
           updated == {Assign(r, user[p]) : r \in target}
       IN /\ \A n \in updated : ~LockWait(p, n)
          /\ \E fails \in Faults :
              IF fails
              THEN /\ Fail(p, StatusOfUpdateUser(ErrDriver),
                           [After(g[p], ErrDriver) EXCEPT !.writes = @ + 1])
                   /\ UNCHANGED db
              ELSE IF \E n \in updated : UniqueViolation(db \ target, n)
              THEN /\ Fail(p, StatusOfUpdateUser(ErrUnique),
                           [After(g[p], ErrUnique) EXCEPT !.writes = @ + 1])
                   /\ UNCHANGED db
              ELSE /\ Reply(p, OK, convertToProtoUser(Assign(existing[p], user[p])),
                            FALSE, FALSE,
                            [After(g[p], Nil) EXCEPT
                                !.writes = @ + 1, !.noRow = @ \/ target = {}])
                   /\ db' = Updates(db, existing[p], user[p])
    /\ UNCHANGED <<nextId, tx, call, ctxDone, user, existing, fate, load>>

(***************************************************************************)
(* Delete.                                                                 *)
(***************************************************************************)
\* repository DeleteUser: cancellation check and existence check
DeleteFirst(p) ==
    /\ pc[p] = "d_first"
    /\ \E fails \in Faults :
        LET r == GetUserByID(ctxDone[p], fails, call[p].id)
            h == AfterLookup(g[p], r, TRUE)
        IN IF r.err # Nil
           THEN Fail(p, StatusOfLookup(r.err), h) /\ UNCHANGED existing
           ELSE /\ Goto(p, "d_delete", h)
                /\ existing' = [existing EXCEPT ![p] = r.user]
    /\ UNCHANGED <<db, nextId, tx, call, ctxDone, user, fate, load>>

\* r.db.Delete(&existingUser)
DeleteExec(p) ==
    /\ pc[p] = "d_delete"
    /\ LET target == {r \in db : r.ID = existing[p].ID}
       IN \E fails \in Faults :
              IF fails
              THEN /\ Fail(p, StatusOfLookup(ErrDriver),
                           [After(g[p], ErrDriver) EXCEPT !.writes = @ + 1])
                   /\ UNCHANGED <<db, fate>>
              ELSE /\ Reply(p, OK, NoUser, FALSE, TRUE,
                            [After(g[p], Nil) EXCEPT
                                !.writes = @ + 1, !.noRow = @ \/ target = {}])
                   /\ db' = db \ target
                   /\ fate' = [fate EXCEPT ![existing[p].ID] = "deleted"]
    /\ UNCHANGED <<nextId, tx, call, ctxDone, user, existing, load>>

(***************************************************************************)
(* The system.                                                             *)
(***************************************************************************)
Create(p) ==
    \/ CreateUsername(p)
    \/ CreateEmail(p)
    \/ CreateBegin(p)
    \/ CreateCheck(p)
    \/ CreateInsert(p)
    \/ CreateCommit(p)

Update(p) ==
    \/ UpdateGet(p)
    \/ UpdateFirst(p)
    \/ UpdateExec(p)

Delete(p) ==
    \/ DeleteFirst(p)
    \/ DeleteExec(p)

\* The reader "a" finishes a GetByID: it is remembered, with whether it is
\* the second in a row for the same id with storage unchanged in between.
\* Any other step that changes storage is remembered as a change.
Observe ==
    prev' = IF pc["a"] # "done" /\ pc'["a"] = "done"
            THEN [n |-> IF prev.n > 0 /\ prev.id = call'["a"].id /\ ~prev.changed
                        THEN 2 ELSE 1,
                  id |-> call'["a"].id,
                  res |-> res'["a"],
                  changed |-> FALSE]
            ELSE IF db' # db THEN [prev EXCEPT !.changed = TRUE]
            ELSE prev

\* concurrent callers, no failures of the environment
Next ==
    /\ \E p \in Active :
        \/ Call(p)
        \/ Return(p)
        \/ Create(p)
        \/ Update(p)
        \/ Delete(p)
    /\ UNCHANGED prev

\* one caller, with cancellation and storage failures
NextSeq ==
    /\ \E p \in Active :
        \/ Call(p)
        \/ Cancel(p)
        \/ Return(p)
        \/ GetByID(p)
        \/ CheckPass(p)
        \/ Create(p)
        \/ Update(p)
        \/ Delete(p)
    /\ UNCHANGED prev

\* a creator and a reader, with cancellation and storage failures
NextTx ==
    /\ \E p \in Active :
        \/ Call(p)
        \/ Cancel(p)
        \/ Return(p)
        \/ GetByID(p)
        \/ Create(p)
    /\ UNCHANGED prev

\* one caller, request values at and beyond the limits of the fields
NextFields ==
    /\ \E p \in Active :
        \/ Call(p)
        \/ Return(p)
        \/ Create(p)
        \/ Update(p)
    /\ UNCHANGED prev

\* a reader and a writer, with cancellation and storage failures
NextReads ==
    /\ \E p \in Active :
        \/ Call(p)
        \/ Cancel(p)
        \/ Return(p)
        \/ GetByID(p)
        \/ Create(p)
        \/ Update(p)
        \/ Delete(p)
    /\ Observe

Spec == Init /\ [][Next]_vars

SpecSeq == InitSeq /\ [][NextSeq]_vars

\* concurrent Creates and Updates under different salts
NextPasswords ==
    /\ \E p \in Active :
        \/ Call(p)
        \/ Return(p)
        \/ Create(p)
        \/ Update(p)
    /\ UNCHANGED prev

\* the steps of the operation caller p is served with
Serve(p) ==
    /\ \/ GetByID(p)
       \/ CheckPass(p)
       \/ Create(p)
       \/ Update(p)
       \/ Delete(p)
    /\ UNCHANGED prev

\* concurrent callers of every operation, with storage failures
NextSteps ==
    \E p \in Active :
        \/ Call(p) /\ UNCHANGED prev
        \/ Return(p) /\ UNCHANGED prev
        \/ Serve(p)

SpecTx == InitTx /\ [][NextTx]_vars

\* Every request is served by a goroutine of its own that the scheduler keeps
\* running, and every storage call returns: the operation of a caller takes
\* its next step whenever it can.
SpecSteps ==
    /\ InitSteps
    /\ [][NextSteps]_vars
    /\ \A p \in Callers : WF_vars(Serve(p))

SpecPasswords == InitPasswords /\ [][NextPasswords]_vars

SpecFields == InitFields /\ [][NextFields]_vars

SpecReads == InitReads /\ [][NextReads]_vars

(***************************************************************************)
(* Properties.                                                             *)
(***************************************************************************)
Done(p) == pc[p] = "done"

Row(table, id) == CHOOSE r \in table : r.ID = id

NulFree(s) == \A i \in 1..Len(s) : s[i] # 0

\* q is P followed by one more character
OneMore(q, P) == Len(q) = Len(P) + 1 /\ SubSeq(q, 1, Len(P)) = P

\* the passwords for which HashPassword, with the row's salt, gives the row's hash
StoredFor(row) ==
    {P \in Passwords : HashPassword(P, row.Salt) = [hash |-> row.Pwdhash, err |-> Nil]}

\* what CheckPass answers for password P on this row
Verifies(row, P) == CompareHashAndPassword(row.Pwdhash, P \o row.Salt) = Nil

\* the Create request of p repeats the username or the email of an account
\* stored when the call began
Duplicates(p) ==
    \E A \in g[p].dbAtCall :
        A.Username = call[p].username \/ A.Email = call[p].email

OnlyPassword(p) ==
    /\ call[p].op = "Update"
    /\ call[p].username = ""
    /\ call[p].email = ""
    /\ call[p].password # <<>>

\* C1: in every reachable state no two stored accounts share a username and
\* no two share an email, whatever Creates, Updates and Deletes the
\* concurrent callers interleave.
C1_UniqueUsernameEmail ==
    \A r1, r2 \in db :
        r1 # r2 => /\ r1.ID # r2.ID
                   /\ r1.Username # r2.Username
                   /\ r1.Email # r2.Email

\* two accounts are stored and a racing write was refused by the unique index
C1_Witness ==
    /\ Cardinality(db) = 2
    /\ \E p \in Callers : Done(p) /\ g[p].lastErr = ErrUnique

\* C2 as stated: a Create that repeats a stored username or email, run alone,
\* fails with AlreadyExists and leaves storage as it was.
C2_DuplicateAlreadyExists ==
    \A p \in Callers :
        (Done(p) /\ call[p].op = "Create" /\ Duplicates(p))
            => /\ res[p].status = AlreadyExists
               /\ db = g[p].dbAtCall

\* C2 amended: such a Create always fails and leaves storage as it was; the
\* status is AlreadyExists whenever the context is not cancelled and no
\* uniqueness lookup fails in storage.
C2_DuplicateRejected ==
    \A p \in Callers :
        (Done(p) /\ call[p].op = "Create" /\ Duplicates(p))
            => /\ db = g[p].dbAtCall
               /\ res[p].status # OK
               /\ (~ctxDone[p] /\ ~g[p].fault) => res[p].status = AlreadyExists

\* a duplicate email, found by the second lookup, is refused with AlreadyExists
C2_Witness ==
    \E p \in Callers :
        /\ Done(p) /\ call[p].op = "Create" /\ Duplicates(p)
        /\ g[p].reads = 2
        /\ res[p].status = AlreadyExists

\* C3 as stated: with the hash of P stored, CheckPass answers valid exactly
\* for the password P.
C3_OnlyThePasswordVerifies ==
    \A p \in Callers :
        (Done(p) /\ call[p].op = "CheckPass" /\ res[p].status = OK)
            => \A P \in StoredFor(user[p]) :
                res[p].valid <=> call[p].password = P

\* C3 amended: CheckPass answers valid for P; it answers not valid for P
\* followed by one more character, and for every other password when neither
\* contains a NUL byte and P with the salt is shorter than 72 bytes.
C3_PasswordVerifies ==
    \A p \in Callers :
        (Done(p) /\ call[p].op = "CheckPass" /\ res[p].status = OK)
            => \A P \in StoredFor(user[p]) :
                LET q == call[p].password
                IN /\ q = P => res[p].valid
                   /\ OneMore(q, P) => ~res[p].valid
                   /\ (/\ q # P
                       /\ NulFree(q) /\ NulFree(P)
                       /\ Len(P \o user[p].Salt) < BcryptMaxLen) => ~res[p].valid

\* CheckPass refused the stored 48-byte password followed by one character
C3_Witness ==
    \E p \in Callers :
        /\ Done(p) /\ call[p].op = "CheckPass" /\ res[p].status = OK
        /\ Pw48 \in StoredFor(user[p])
        /\ OneMore(call[p].password, Pw48)
        /\ ~res[p].valid

ByIdOps == {"GetByID", "Update", "Delete", "CheckPass"}

\* C4 as stated: a GetByID, Update, Delete or CheckPass one of whose storage
\* accesses finds no row for the id answers NotFound, also when the account
\* is deleted by a concurrent caller while the operation runs.
C4_NoRowIsNotFound ==
    \A p \in Callers :
        (Done(p) /\ call[p].op \in ByIdOps /\ g[p].noRow)
            => res[p].status = NotFound

\* C5 as stated: the step of an Update without a password that writes the
\* account leaves the stored hash and salt of that account as they were.
C5_EmptyPasswordKeepsHash ==
    [][\A p \in Callers :
        (pc[p] = "u_updates" /\ pc'[p] = "done" /\ call[p].password = <<>>)
            => \A r \in db, r2 \in db' :
                (r.ID = call[p].id /\ r2.ID = r.ID)
                    => r2.Pwdhash = r.Pwdhash /\ r2.Salt = r.Salt]_vars

\* C6 as stated: a successful Update that gives only a password, run alone,
\* keeps username and email, makes the new password verify and makes every
\* password that verified before fail.
C6_OldPasswordFails ==
    \A p \in Callers :
        (Done(p) /\ OnlyPassword(p) /\ res[p].status = OK)
            => LET old == Row(g[p].dbAtCall, call[p].id)
                   new == Row(db, call[p].id)
               IN /\ new.Username = old.Username
                  /\ new.Email = old.Email
                  /\ Verifies(new, call[p].password)
                  /\ \A P \in StoredFor(old) : ~Verifies(new, P)

\* C6 amended: such an Update keeps username and email and makes the new
\* password verify; the old password fails afterwards provided it differs
\* from the new one and neither contains a NUL byte.
C6_PasswordOnlyUpdate ==
    \A p \in Callers :
        (Done(p) /\ OnlyPassword(p) /\ res[p].status = OK)
            => LET old == Row(g[p].dbAtCall, call[p].id)
                   new == Row(db, call[p].id)
               IN /\ new.Username = old.Username
                  /\ new.Email = old.Email
                  /\ Verifies(new, call[p].password)
                  /\ \A P \in StoredFor(old) :
                      (P # call[p].password /\ NulFree(P) /\ NulFree(call[p].password))
                          => ~Verifies(new, P)

\* a password-only Update replaced the password by a different one, under a
\* different salt
C6_Witness ==
    \E p \in Callers :
        /\ Done(p) /\ OnlyPassword(p) /\ res[p].status = OK
        /\ LET old == Row(g[p].dbAtCall, call[p].id)
               new == Row(db, call[p].id)
           IN /\ StoredFor(old) # {}
              /\ call[p].password \notin StoredFor(old)
              /\ new.Salt # old.Salt
              /\ Verifies(new, call[p].password)

\* C7: an operation called with a context that is already cancelled answers
\* Canceled and has neither read nor written storage.
C7_CancelledAtEntry ==
    \A p \in Callers :
        (Done(p) /\ g[p].entryCancelled)
            => /\ res[p].status = Canceled
               /\ g[p].reads = 0
               /\ g[p].writes = 0
               /\ db = g[p].dbAtCall

\* an Update of a stored account, called with a cancelled context, has answered
C7_Witness ==
    \E p \in Callers :
        /\ Done(p) /\ g[p].entryCancelled
        /\ call[p].op = "Update"
        /\ \E r \in db : r.ID = call[p].id

\* C8 as stated: when the context is cancelled after the entry check and a
\* repository check detects it, the operation answers Canceled.
C8_LateCancelIsCanceled ==
    \A p \in Callers :
        (Done(p) /\ ~g[p].entryCancelled /\ g[p].repoCancel)
            => res[p].status = Canceled

\* C9: a Create that is cancelled or fails after its transaction began leaves
\* no row behind, only rows of committed transactions are stored, and no
\* lookup has returned a row of a transaction that was not committed.
C9_NoPartialRow ==
    /\ \A p \in Callers :
        (Done(p) /\ call[p].op = "Create" /\ res[p].status # OK /\ g[p].txBegun)
            => /\ tx[p] = NoUser
               /\ g[p].rowId # 0
                    => /\ fate[g[p].rowId] = "aborted"
                       /\ \A r \in db : r.ID # g[p].rowId
    /\ \A r \in db : fate[r.ID] = "committed"
    /\ \A q \in Callers : g[q].seen # 0 => fate[g[q].seen] = "committed"

\* a Create failed after inserting its row, and a GetByID for the id of that
\* row found nothing
C9_Witness ==
    \E p, q \in Callers :
        /\ Done(p) /\ call[p].op = "Create" /\ res[p].status # OK
        /\ g[p].rowId # 0
        /\ Done(q) /\ call[q].op = "GetByID" /\ call[q].id = g[p].rowId
        /\ res[q].status = NotFound

\* C10 as stated: of two concurrent Creates with the same username or email
\* that both passed the uniqueness lookups at most one succeeds, and the
\* other answers AlreadyExists.
C10_LoserAlreadyExists ==
    \A p, q \in Callers :
        (/\ p # q
         /\ Done(p) /\ call[p].op = "Create"
         /\ Done(q) /\ call[q].op = "Create"
         /\ call[p].username = call[q].username \/ call[p].email = call[q].email
         /\ q \in g[p].peersReady)
            => /\ ~(res[p].status = OK /\ res[q].status = OK)
               /\ res[p].status = OK => res[q].status = AlreadyExists

\* codes.InvalidArgument, which no operation of the service produces
InvalidArgument == "InvalidArgument"

\* a string field that validateUser refuses
BadLength(str, max) == str = "" \/ Len(str) > max

\* C11 as stated: a Create whose username or email is empty or longer than
\* 50 respectively 254 characters answers InvalidArgument.
C11_InvalidFieldIsInvalidArgument ==
    \A p \in Callers :
        (/\ Done(p) /\ call[p].op = "Create"
         /\ \/ BadLength(call[p].username, MaxUsernameLen)
            \/ BadLength(call[p].email, MaxEmailLen))
            => res[p].status = InvalidArgument

\* C12 as stated: every stored account has a username of 1 to 50 characters,
\* an email of 1 to 254, a password hash of 1 to 1000 and a salt of 1 to 255.
C12_StoredFieldsWithinLimits ==
    \A r \in db :
        /\ ~BadLength(r.Username, MaxUsernameLen)
        /\ ~BadLength(r.Email, MaxEmailLen)
        /\ r.Pwdhash # <<>> /\ PwdhashLen(r.Pwdhash) <= MaxPwdhashLen
        /\ r.Salt # <<>> /\ Len(r.Salt) <= MaxSaltLen

ErrorKinds == {InvalidArgument, AlreadyExists, NotFound, Canceled, Internal}

RepoErrors == {ErrUserNotFound, CtxCanceled, ErrDriver, ErrUnique, ErrInvalid, ErrHash, ErrSalt}

\* C13: every finished operation answers OK or exactly one of the kinds
\* InvalidArgument, AlreadyExists, NotFound, Canceled, Internal, and what it
\* answers is never the error value of the repository or the driver.
C13_ErrorsCarryAKind ==
    \A p \in Callers :
        Done(p) => /\ res[p].status \in {OK} \cup ErrorKinds
                   /\ res[p].status \notin RepoErrors
                   /\ g[p].lastErr # Nil => res[p].status \in ErrorKinds

\* an Update refused by the unique index has answered Internal
C13_Witness ==
    \E p \in Callers :
        /\ Done(p) /\ call[p].op = "Update"
        /\ g[p].lastErr = ErrUnique
        /\ res[p].status = Internal

\* the call of p met neither a cancelled context nor a failing storage access
Undisturbed(p) == ~g[p].entryCancelled /\ ~g[p].repoCancel /\ ~g[p].fault

StoredAtCall(p) == \E r \in g[p].dbAtCall : r.ID = call[p].id

\* the account named by the request of p was deleted before the call began
GoneBefore(p) == fate[call[p].id] = "deleted" /\ ~StoredAtCall(p)

\* C14 as stated: once Delete(id) has succeeded, every later GetByID, Update,
\* Delete and CheckPass for that id answers NotFound.
C14_DeletedIsNotFound ==
    \A p \in Callers :
        (Done(p) /\ call[p].op \in ByIdOps /\ GoneBefore(p))
            => res[p].status = NotFound

\* C14 amended: once Delete(id) has succeeded, every later GetByID, Update,
\* Delete and CheckPass for that id fails and leaves storage unchanged; it
\* answers NotFound unless its context is cancelled or its storage access
\* fails.
C14_DeletedStaysDeleted ==
    \A p \in Callers :
        (Done(p) /\ call[p].op \in ByIdOps /\ GoneBefore(p))
            => /\ res[p].status # OK
               /\ db = g[p].dbAtCall
               /\ Undisturbed(p) => res[p].status = NotFound

\* with another account still stored, CheckPass for a deleted id answered
\* NotFound
C14_Witness ==
    \E p \in Callers :
        /\ Done(p) /\ call[p].op = "CheckPass" /\ GoneBefore(p)
        /\ db # {}
        /\ res[p].status = NotFound

ValidNames(p) ==
    /\ ~BadLength(call[p].username, MaxUsernameLen)
    /\ ~BadLength(call[p].email, MaxEmailLen)

\* what C15 promises of a successful Create
Created(p) ==
    /\ res[p].status = OK
    /\ res[p].user.Username = call[p].username
    /\ res[p].user.Email = call[p].email
    /\ res[p].user.ID # 0
    /\ \A r \in db : r # res[p].user => r.ID # res[p].user.ID
    /\ \A r \in g[p].dbAtCall : r.ID # res[p].user.ID
    /\ res[p].user.Pwdhash # call[p].password
    /\ res[p].user \in db
    /\ GetUserByID(FALSE, FALSE, res[p].user.ID) = [err |-> Nil, user |-> res[p].user]

C16_UpdateDuplicateAlreadyExists ==
    \A p \in Callers :
        (/\ Done(p) /\ call[p].op = "Update"
         /\ StoredAtCall(p)
         /\ \E A \in g[p].dbAtCall :
                /\ A.ID # call[p].id
                /\ A.Username = call[p].username \/ A.Email = call[p].email
         /\ Undisturbed(p)
         /\ g[p].lastErr \notin {ErrSalt, ErrHash})
            => /\ res[p].status = AlreadyExists
               /\ db = g[p].dbAtCall

\* bcrypt's comparison of the password with the stored hash and salt fails
Mismatch(row, password) == BcryptKey(password \o row.Salt) # row.Pwdhash

\* C17 as stated: CheckPass with a password that does not verify for a stored
\* account answers valid=false without an error and leaves storage as it is;
\* it answers with an error only when the account lookup fails.
C17_MismatchIsNotAnError ==
    \A p \in Callers :
        (Done(p) /\ call[p].op = "CheckPass")
            => /\ res[p].status # OK => g[p].lastErr # Nil
               /\ \A r \in g[p].dbAtCall :
                    (r.ID = call[p].id /\ Mismatch(r, call[p].password))
                        => /\ res[p].status = OK
                           /\ ~res[p].valid
                           /\ db = g[p].dbAtCall

\* C17 amended: CheckPass never changes storage; it answers with an error
\* only when its context is cancelled at entry or the account lookup fails,
\* and otherwise answers valid=false for a password that does not verify.
C17_MismatchIsInvalid ==
    \A p \in Callers :
        (Done(p) /\ call[p].op = "CheckPass")
            => /\ db = g[p].dbAtCall
               /\ res[p].status # OK => (g[p].entryCancelled \/ g[p].lastErr # Nil)
               /\ \A r \in g[p].dbAtCall :
                    (/\ r.ID = call[p].id
                     /\ Mismatch(r, call[p].password)
                     /\ Undisturbed(p))
                        => res[p].status = OK /\ ~res[p].valid

\* CheckPass with another password than the stored one answered valid=false
C17_Witness ==
    \E p \in Callers :
        /\ Done(p) /\ call[p].op = "CheckPass"
        /\ call[p].password = Pw3
        /\ \E r \in db : r.ID = call[p].id /\ Pw1 \in StoredFor(r)
        /\ res[p].status = OK /\ ~res[p].valid

\* C18 as stated: a Delete for an id that is not stored answers NotFound,
\* not success, and leaves the stored accounts as they are.
C18_DeleteMissingIsNotFound ==
    \A p \in Callers :
        (Done(p) /\ call[p].op = "Delete" /\ ~StoredAtCall(p))
            => /\ res[p].status = NotFound
               /\ ~res[p].success
               /\ db = g[p].dbAtCall

\* C18 amended: such a Delete never answers success and leaves the stored
\* accounts as they are; it answers NotFound unless its context is cancelled
\* or its storage access fails.
C18_DeleteMissingFails ==
    \A p \in Callers :
        (Done(p) /\ call[p].op = "Delete" /\ ~StoredAtCall(p))
            => /\ res[p].status # OK
               /\ ~res[p].success
               /\ db = g[p].dbAtCall
               /\ Undisturbed(p) => res[p].status = NotFound

\* a Delete for an id that was never stored answered NotFound while another
\* account is stored
C18_Witness ==
    \E p \in Callers :
        /\ Done(p) /\ call[p].op = "Delete" /\ ~StoredAtCall(p)
        /\ fate[call[p].id] = "unused"
        /\ db # {}
        /\ res[p].status = NotFound

\* C20: in Create, a uniqueness lookup that returns an error other than
\* ErrUserNotFound ends the call with Internal and nothing inserted; Create
\* goes past a lookup only when it returned ErrUserNotFound.
C20_LookupErrorIsInternal ==
    [][\A p \in Callers :
        (pc[p] \in {"c_username", "c_email"} /\ pc'[p] # pc[p])
            => /\ g'[p].lastErr \notin {Nil, ErrUserNotFound}
                    => /\ pc'[p] = "done"
                       /\ res'[p].status = Internal
                       /\ g'[p].writes = 0
                       /\ db' = db /\ tx' = tx /\ nextId' = nextId
               /\ pc'[p] # "done" => g'[p].lastErr = ErrUserNotFound
               /\ pc'[p] = "c_begin" => pc[p] = "c_email"]_vars

\* with an account stored, the username lookup of a Create failed in the
\* driver and the Create answered Internal
C20_Witness ==
    \E p \in Callers :
        /\ Done(p) /\ call[p].op = "Create"
        /\ g[p].reads = 1 /\ g[p].lastErr = ErrDriver
        /\ g[p].writes = 0
        /\ db # {}
        /\ res[p].status = Internal

\* the reader's GetByID answers in this step
ReaderFinishes == pc["a"] # "done" /\ pc'["a"] = "done"

\* ... and it is for the id of the reader's previous GetByID, with storage
\* unchanged since that one answered
SecondInARow == prev.n > 0 /\ prev.id = call'["a"].id /\ ~prev.changed

\* C19 as stated: a GetByID that follows a GetByID for the same id, with no
\* change of storage in between, answers what the first answered; GetByID
\* never changes storage.
C19_SameAnswerTwice ==
    [][/\ (ReaderFinishes /\ SecondInARow) => res'["a"] = prev.res
       /\ ReaderFinishes => db' = db]_vars

\* C19 amended: the same, provided neither of the two calls is cancelled or
\* meets a storage failure (both answer OK or NotFound).
C19_SameAnswerTwiceUndisturbed ==
    [][/\ (/\ ReaderFinishes /\ SecondInARow
           /\ prev.res.status \in {OK, NotFound}
           /\ res'["a"].status \in {OK, NotFound}) => res'["a"] = prev.res
       /\ ReaderFinishes => db' = db]_vars

\* the reader has read the same stored account twice in a row
C19_Witness ==
    /\ Done("a")
    /\ prev.n = 2
    /\ prev.res.status = OK
    /\ prev.res = res["a"]

C22_CancelledBeforeWrite ==
    [][\A p \in Callers :
        (pc[p] \in {"u_updates", "d_delete"} /\ ctxDone[p] /\ pc'[p] = "done")
            => /\ db' = db
               /\ g'[p].writes = g[p].writes
               /\ g'[p].lastErr = CtxCanceled]_vars

\* C23: every stored account has a hash and a salt, and the hash is the one
\* HashPassword computes from some password and the account's stored salt,
\* whatever Creates and Updates the concurrent callers interleave.
C23_HashMatchesSalt ==
    \A r \in db :
        /\ r.Pwdhash # <<>>
        /\ r.Salt # <<>>
        /\ \E pw \in Passwords :
                HashPassword(pw, r.Salt) = [hash |-> r.Pwdhash, err |-> Nil]

\* two Updates of one account have raced: the one without a password wrote
\* last and put back the hash and salt it had read, over those the other
\* had stored under a different salt
C23_Witness ==
    \E p, q \in Callers :
        /\ Done(p) /\ call[p].op = "Update" /\ res[p].status = OK
        /\ Done(q) /\ call[q].op = "Update" /\ res[q].status = OK
        /\ call[p].id = call[q].id
        /\ call[p].password = <<>> /\ call[q].password # <<>>
        /\ \E r \in db :
            /\ r.ID = call[p].id
            /\ r.Salt # res[q].user.Salt
            /\ r.Pwdhash # res[q].user.Pwdhash

C26_IdsAreStable ==
    [][/\ \A p \in Callers :
            (pc[p] = "u_updates" /\ pc'[p] = "done")
                => {r.ID : r \in db'} = {r.ID : r \in db}
       /\ \A i \in Ids :
            /\ fate[i] = "deleted" => fate'[i] = "deleted"
            /\ fate'[i] = "deleted" => \A r \in db' : r.ID # i
       /\ \A p \in Callers :
            (pc[p] = "c_insert" /\ pc'[p] = "c_commit")
                => /\ fate[tx'[p].ID] = "unused"
                   /\ \A r \in db : r.ID < tx'[p].ID
                   /\ nextId' > tx'[p].ID]_vars

\* an Update of an account that another caller had deleted after the
\* Update's existence check has finished, and the account is still gone
C26_Witness ==
    \E p \in Callers :
        /\ Done(p) /\ call[p].op = "Update"
        /\ g[p].noRow /\ g[p].writes = 1
        /\ fate[call[p].id] = "deleted"
        /\ \A r \in db : r.ID # call[p].id

\* accounts with one field missing or over-length
InvalidAccounts ==
    LET salt == GenerateSalt([err |-> Nil, bytes |-> Rep(SaltBytes, 0)]).salt
        hash == HashPassword(Pw1, salt).hash
    IN {GormUser(0, u, "a@x.com", hash, salt) : u \in BadUsernames}
       \cup {GormUser(0, "alice", e, hash, salt) : e \in BadEmails}
       \cup {GormUser(0, "alice", "a@x.com", <<>>, salt)}
       \cup {GormUser(0, "alice", "a@x.com", hash, sl) :
                sl \in {<<>>, Rep(MaxSaltLen + 1, 65)}}

\* C27: repository CreateUser, called with an account that validateUser
\* refuses, returns the validation error without beginning a transaction
\* and leaves storage, the id sequence and every transaction as they were;
\* it refuses an account with any one field missing or over-length before
\* it calls Begin, whether or not Begin would fail.
C27_InvalidAccountNotWritten ==
    [][/\ \A p \in Callers :
            (/\ pc[p] = "c_begin" /\ pc'[p] # pc[p]
             /\ ~ValidNames(p))
                => /\ pc'[p] = "done"
                   /\ g'[p].lastErr = ErrInvalid
                   /\ ~g'[p].txBegun /\ ~g'[p].txOpen
                   /\ g'[p].writes = 0
                   /\ db' = db /\ tx' = tx /\ nextId' = nextId /\ fate' = fate
       /\ \A u \in InvalidAccounts, fails \in BOOLEAN :
            CreateUserHead(FALSE, u, fails) = ErrInvalid]_vars

\* with an account stored, a Create with a 255-character email was refused
\* by validateUser
C27_Witness ==
    \E p \in Callers :
        /\ Done(p) /\ call[p].op = "Create"
        /\ call[p].email = LongEmail
        /\ g[p].lastErr = ErrInvalid
        /\ ~g[p].txBegun
        /\ db # {}

\* how far an operation has come
Rank(label) ==
    CASE label \in {"c_username", "g_get", "k_get", "u_get", "d_first"} -> 1
      [] label \in {"c_email", "u_first", "d_delete"} -> 2
      [] label \in {"c_begin", "u_updates"} -> 3
      [] label = "c_check" -> 4
      [] label = "c_insert" -> 5
      [] label = "c_commit" -> 6
      [] label = "done" -> 7

StorageCalls(h) == h.reads + h.writes

\* C28: every operation that has been called answers, whatever the outcomes
\* of its storage calls; each of its steps moves it forward and issues at
\* most one storage call, so that no storage call is issued twice, and a
\* storage call that fails ends the operation.
C28_OperationsTerminate ==
    /\ \A p \in Callers : (pc[p] \notin {"idle", "done"}) ~> Done(p)
    /\ [][\A p \in Callers :
            (pc[p] \notin {"idle", "done"} /\ (pc'[p] # pc[p] \/ g'[p] # g[p]))
                => /\ Rank(pc'[p]) > Rank(pc[p])
                   /\ StorageCalls(g'[p]) <= StorageCalls(g[p]) + 1
                   /\ g'[p].lastErr = ErrDriver => pc'[p] = "done"]_vars

\* the update statement of an Update failed in the driver after two lookups
\* that succeeded, and the Update answered Internal
C28_Witness ==
    \E p \in Callers :
        /\ Done(p) /\ call[p].op = "Update"
        /\ g[p].reads = 2 /\ g[p].writes = 1
        /\ g[p].lastErr = ErrDriver
        /\ res[p].status = Internal

====
